---------------------------- MODULE Spec2Model ----------------------------
(***************************************************************************)
(* A model of pingmeplz / webmon.  The repository holds three generations *)
(* of the monitoring engine:                                               *)
(*   - src/unnamed/part_002: webmon, the failure/recovery notification    *)
(*     policy (Runner.errors, State, OK, Fail, Notify) over a host list;  *)
(*   - src/main.go: the first ring-buffer runner (bufSize 30);            *)
(*   - src/unnamed/part_001: the ring-buffer runner with CollectionTime   *)
(*     and the maxHosts limit.                                             *)
(* Each generation has its own variables and its own specification.       *)
(***************************************************************************)
EXTENDS Integers, Sequences, FiniteSets, TLC

(***************************************************************************)
(* Bounds of the model and program constants.                             *)
(***************************************************************************)
HostNames == {"a.example", "b.example"}
Reasons == {"timeout"}

\* flag -errors: number of errors before notifying (part_002 line 65)
numErrors == 3

\* longest host list of the webmon model
MaxList == 3
\* most probe outcomes delivered to the webmon handlers in one behaviour
MaxFed == 6
\* the same, in the behaviours that also call NewHost
MaxFedAdd == 2
\* most NewHost calls in one behaviour
MaxNewHost == 1
\* the modification times of the rule file are 1..MaxMtime
MaxMtime == 2
\* most probe outcomes in the behaviours that reload a changing rule file
MaxFedReload == 2

\* const bufSize of main.go (line 43) and the modulus of its cursor (line 125)
mainBufSize == 30
mainPosMod == 10
\* most probes recorded in one behaviour of the main.go model
MainMaxRecords == 30

\* time.Millisecond, in nanoseconds as time.Duration counts
Millisecond == 1000000
Durations == {10 * Millisecond, 20 * Millisecond, 30 * Millisecond, 40 * Millisecond}
NilError == "<nil>"
RegNames == HostNames \cup {"c.example"}
Emails == {"x@example.net", "y@example.net"}

\* largest const bufSize the part_001 model is built with
MaxBufSize == 3
\* most probes recorded in one behaviour of the part_001 model
MaxRecords == 4
\* largest value of the flag -maxHosts
MaxFlag == 2
\* /newhost handlers running at the same time, and their calls in all
MaxCallers == 2
MaxCalls == 3
\* most poll rounds of part_001 and of main.go in one behaviour
MaxRounds == 2
\* most NewHost calls while the poller runs
MaxPollCalls == 1
\* the probes, page loads and /newhost requests of the served site
MaxServeRecs == 2
MaxPages == 1
MaxServeCalls == 2

VARIABLES
    wHosts,     \* part_002 Runner.Hosts: the list of *Host
    errors,     \* part_002 Runner.errors: hostname -> *State (0 is nil)
    heap,       \* the State objects allocated by Fail, by address 1..Len(heap)
    wFile,      \* the rule file: the list last encoded into it
    wpc,        \* the poller goroutine's position in StartRunner's loop
    toRecv,     \* results the poller's receive loop still waits for
    gor,        \* the Ping goroutines of the round, by index into wHosts
    fed,        \* history: outcomes handed to OK/Fail, per hostname
    notes,      \* history: notifications sent, per hostname
    overlap,    \* history: two handlers of one hostname ran at the same time
    wNewHost,   \* history: the last NewHost call and what it returned
    wCalls,     \* history: the number of NewHost calls so far
    wLast,      \* part_002 Runner.last: the mtime of the last load, 0 the zero Time
    wMtime,     \* the modification time of the rule file
    wNil,       \* part_002 r.Hosts == nil
    wLoad,      \* history: what the last loadRules call returned
    mHosts,     \* main.go Runner.Hosts: hostname -> *Host
    mCount,     \* history: the probes recorded per host of main.go
    mStamp,     \* history: per slot, the number of the probe last written to it
    mpc,        \* main.go poller goroutine: its position in StartRunner's loop
    mName,      \* the loop variable name of the launch loop, "" before the loop
    mTodo,      \* the map entries the launch loop has still to visit
    mWaitLeft,  \* the iterations the receive loop has still to make
    mGs,        \* the goroutines launched so far, the finished ones included
    mRound,     \* history: the number of rounds started
    bufSize,    \* part_001 const bufSize, fixed when the program is built
    maxHosts,   \* part_001 flag -maxHosts
    Hosts,      \* part_001 Runner.Hosts: hostname -> *Host
    now,        \* the clock read by time.Now()
    rec,        \* history: the outcomes recorded per host, oldest first
    rLock,      \* part_001 Runner.Mutex: the caller holding it, 0 when free
    call,       \* the /newhost handlers: position in NewHost and save
    calls,      \* history: the number of NewHost calls so far
    pFile,      \* the host file: hostname -> Email as last encoded
    loaded,     \* history: the hostnames StartRunner loaded from the file
    ppc,        \* part_001 poller goroutine: its position in StartRunner's loop
    todo,       \* the map entries the launch loop has still to visit
    waitLeft,   \* the iterations the receive loop has still to make
    gs,         \* the Ping goroutines launched so far, the finished ones included
    round,      \* history: the number of rounds started
    hLock,      \* part_001 Host.Mutex per hostname: its holder, 0 when free
    pg,         \* a Ping of the poller: its position in Ping, OK and Fail
    hr,         \* the /history handler: its position in the template
    wl,         \* the / handler (welcome): its position
    hand,       \* the /newhost handlers: position before runner.NewHost
    whole,      \* history: the (Latency, CollectionTime) pairs of whole records
    pLast,      \* part_001 Runner.last: the mtime of the load, 0 the zero Time
    pMtime,     \* the modification time of the host file, as others' edits set it
    pNil        \* part_001 r.Hosts == nil

wstat == <<wLast, wMtime, wNil, wLoad>>

wvars == <<wHosts, errors, heap, wFile, wpc, toRecv, gor, fed, notes,
           overlap, wNewHost, wCalls, wstat>>

mpoll == <<mpc, mName, mTodo, mWaitLeft, mGs, mRound>>

mvars == <<mHosts, mCount, mStamp, mpoll>>

poll == <<ppc, todo, waitLeft, gs, round>>

serve == <<hLock, pg, hr, wl, hand, whole>>

boot == <<pLast, pMtime, pNil>>

pvars == <<bufSize, maxHosts, Hosts, now, rec, rLock, call, calls, pFile,
           loaded, poll, serve, boot>>

vars == <<wvars, mvars, pvars>>

--------------------------------------------------------------------------
(***************************************************************************)
(* part_002: webmon.                                                       *)
(***************************************************************************)

\* type State struct { err []error; sent bool }
State(err, sent) == [err |-> err, sent |-> sent]

\* type Host struct { Host, Email string; Error []error }
NewHostObj(name, email) == [Host |-> name, Email |-> email, Error |-> <<>>]

\* json.Encoder writes Host, Email and Error; an error value encodes as {},
\* which json.Decoder cannot read back into an error: a file holding a
\* non-empty Error list does not decode.
Decodable(list) == \A i \in 1..Len(list) : list[i].Error = <<>>

\* The list as json.Decoder reads it back: fresh Host objects.
Decoded(list) == [i \in 1..Len(list) |-> NewHostObj(list[i].Host, list[i].Email)]

Idle == [pc |-> "none", s |-> 0, tmp |-> <<>>, e |-> ""]

InHandler(g) == g.pc \in {"fail_read", "fail_write", "fail_check",
                          "fail_notify", "ok_check"}

\* Host.Notify: the template prints "is down" when h.Error is not empty and
\* "has come back up" otherwise.
NotifyKind(h) == IF Len(h.Error) > 0 THEN "down" ELSE "recovered"

Notify(h) == Append(notes[h.Host], [kind |-> NotifyKind(h), at |-> Len(fed[h.Host])])

\* The rule files of the model: a host named up to MaxList times, and two
\* hosts.  The file is written by hand and by NewHost, which both may repeat
\* a name.
RuleFiles ==
    {[i \in 1..n |-> NewHostObj("a.example", "x@example.net")] : n \in 1..MaxList}
    \cup {<<NewHostObj("a.example", "x@example.net"),
            NewHostObj("b.example", "y@example.net")>>}

WInitWith(files) ==
    /\ wFile \in files
    /\ wHosts = <<>>
    /\ errors = [n \in HostNames |-> 0]
    /\ heap = <<>>
    /\ wpc = "load"
    /\ toRecv = 0
    /\ gor = [i \in 1..MaxList |-> Idle]
    /\ fed = [n \in HostNames |-> <<>>]
    /\ notes = [n \in HostNames |-> <<>>]
    /\ overlap = [n \in HostNames |-> FALSE]
    /\ wNewHost = [called |-> FALSE]
    /\ wCalls = 0
    /\ wLast = 0
    /\ wMtime = 1
    /\ wNil = TRUE
    /\ wLoad = "none"

WInit == WInitWith(RuleFiles)

TotalFed == Len(fed["a.example"]) + Len(fed["b.example"])

\* if mtime.Before(r.last) && r.Hosts != nil { return nil }
Skips == wMtime < wLast /\ ~wNil

\* What loadRules can return: os.Stat and os.Open fail or not as the file
\* system decides, Decode fails on a file it cannot read, and the file is
\* not opened when the load is skipped.
LoadErrors ==
    {"loadRules Stat"}
    \cup (IF Skips THEN {"nil"}
          ELSE {"loadRules Open"}
               \cup (IF Decodable(wFile) THEN {"nil"} ELSE {"loadRules json Decode"}))

LoadedEarly(err) ==
    IF err = "loadRules Stat" \/ Skips
    THEN [Hosts |-> wHosts, last |-> wLast, isNil |-> wNil]
    ELSE [Hosts |-> Decoded(wFile), last |-> wMtime, isNil |-> FALSE]

\* r.last and r.Hosts when loadRules returns err: assigned in the last two
\* lines, which only a load that was neither skipped nor failed reaches.
Loaded(err) ==
    IF err = "nil" /\ ~Skips
    THEN [Hosts |-> Decoded(wFile), last |-> wMtime, isNil |-> FALSE]
    ELSE [Hosts |-> wHosts, last |-> wLast, isNil |-> wNil]

\* Runner.loadRules, then the choice StartRunner makes on its result: the
\* round when it returned nil, no round when Stat, Open or Decode failed.
WLoadRules(bound) ==
    /\ wpc = "load"
    /\ \E err \in LoadErrors :
          /\ err = "nil" => TotalFed + Len(Loaded(err).Hosts) <= bound
          /\ wHosts' = Loaded(err).Hosts
          /\ wLast' = Loaded(err).last
          /\ wNil' = Loaded(err).isNil
          /\ wLoad' = err
          /\ wpc' = IF err = "nil" THEN "launch" ELSE "sleep"
    /\ UNCHANGED <<errors, heap, wFile, toRecv, gor, fed, notes,
                   overlap, wNewHost, wCalls, wMtime>>
    /\ UNCHANGED <<mvars, pvars>>

\* for i := range r.Hosts { go func(i int) { errc <- r.Ping(r.Hosts[i]) }(i) }
WLaunch ==
    /\ wpc = "launch"
    /\ gor' = [i \in 1..MaxList |->
                 IF i <= Len(wHosts) THEN [Idle EXCEPT !.pc = "ping"] ELSE Idle]
    /\ wpc' = "range"
    /\ UNCHANGED <<wHosts, errors, heap, wFile, toRecv, fed, notes,
                   overlap, wNewHost, wCalls>>
    /\ UNCHANGED <<mvars, pvars>>
    /\ UNCHANGED wstat

\* for _ = range r.Hosts: the length is read once, when the loop starts.
WRange ==
    /\ wpc = "range"
    /\ toRecv' = Len(wHosts)
    /\ wpc' = "wait"
    /\ UNCHANGED <<wHosts, errors, heap, wFile, gor, fed, notes,
                   overlap, wNewHost, wCalls>>
    /\ UNCHANGED <<mvars, pvars>>
    /\ UNCHANGED wstat

\* The State objects still referenced from r.errors, renumbered.
LiveNames == {n \in HostNames : errors[n] # 0}
Compacted ==
    IF LiveNames = {} THEN [h |-> <<>>, e |-> errors]
    ELSE IF Cardinality(LiveNames) = 1
         THEN LET n == CHOOSE x \in LiveNames : TRUE
              IN [h |-> <<heap[errors[n]]>>, e |-> [errors EXCEPT ![n] = 1]]
         ELSE [h |-> <<heap[errors["a.example"]], heap[errors["b.example"]]>>,
               e |-> [n \in HostNames |-> IF n = "a.example" THEN 1 ELSE 2]]

\* err := <-errc
WRecv(i) ==
    /\ wpc = "wait"
    /\ toRecv > 0
    /\ gor[i].pc = "send"
    /\ gor' = [gor EXCEPT ![i] = Idle]
    /\ toRecv' = toRecv - 1
    /\ UNCHANGED <<wHosts, errors, heap, wFile, wpc, fed, notes,
                   overlap, wNewHost, wCalls>>
    /\ UNCHANGED <<mvars, pvars>>
    /\ UNCHANGED wstat

\* The receive loop ends; time.Sleep(poll); the next iteration.  States that
\* no goroutine refers to any more are dropped from the heap.
WSleep ==
    /\ \/ wpc = "wait" /\ toRecv = 0
       \/ wpc = "sleep"
    /\ wpc' = "load"
    /\ heap' = Compacted.h
    /\ errors' = Compacted.e
    /\ UNCHANGED <<wHosts, wFile, toRecv, gor, fed, notes, overlap,
                   wNewHost, wCalls>>
    /\ UNCHANGED <<mvars, pvars>>
    /\ UNCHANGED wstat

\* The policy state of a hostname, in the words of the specification.
PolicyState(n) ==
    IF errors[n] = 0 THEN "Up"
    ELSE IF heap[errors[n]].sent THEN "DownNotified" ELSE "Failing"

Counter(n) == IF errors[n] = 0 THEN 0 ELSE Len(heap[errors[n]].err)

Busy(i) == \E j \in 1..MaxList :
              j # i /\ j <= Len(wHosts) /\ wHosts[j].Host = wHosts[i].Host
                    /\ InHandler(gor[j])

Feed(i, o) ==
    /\ fed' = [fed EXCEPT ![wHosts[i].Host] =
                  Append(@, [o |-> o, st |-> PolicyState(wHosts[i].Host),
                             cnt |-> Counter(wHosts[i].Host)])]
    /\ overlap' = [overlap EXCEPT ![wHosts[i].Host] = @ \/ Busy(i)]

\* Ping got an error or a non-200 status and calls Fail.  Fail, lines 147-153:
\* under the lock, s := r.errors[h.Host], a new State when there is none.
WFailEnter(i, e) ==
    /\ gor[i].pc = "ping"
    /\ LET n == wHosts[i].Host IN
       IF errors[n] = 0
       THEN /\ heap' = Append(heap, State(<<>>, FALSE))
            /\ errors' = [errors EXCEPT ![n] = Len(heap) + 1]
            /\ gor' = [gor EXCEPT ![i] = [pc |-> "fail_read", s |-> Len(heap) + 1,
                                          tmp |-> <<>>, e |-> e]]
       ELSE /\ gor' = [gor EXCEPT ![i] = [pc |-> "fail_read", s |-> errors[n],
                                          tmp |-> <<>>, e |-> e]]
            /\ UNCHANGED <<heap, errors>>
    /\ Feed(i, "F")
    /\ UNCHANGED <<wHosts, wFile, wpc, toRecv, notes, wNewHost, wCalls>>
    /\ UNCHANGED <<mvars, pvars>>
    /\ UNCHANGED wstat

\* s.err = append(s.err, getErr), line 154, outside the lock: the read ...
WFailRead(i) ==
    /\ gor[i].pc = "fail_read"
    /\ gor' = [gor EXCEPT ![i].pc = "fail_write", ![i].tmp = heap[gor[i].s].err]
    /\ UNCHANGED <<wHosts, errors, heap, wFile, wpc, toRecv, fed,
                   notes, overlap, wNewHost, wCalls>>
    /\ UNCHANGED <<mvars, pvars>>
    /\ UNCHANGED wstat

\* ... and the write.
WFailWrite(i) ==
    /\ gor[i].pc = "fail_write"
    /\ heap' = [heap EXCEPT ![gor[i].s].err = Append(gor[i].tmp, gor[i].e)]
    /\ gor' = [gor EXCEPT ![i].pc = "fail_check", ![i].tmp = <<>>]
    /\ UNCHANGED <<wHosts, errors, wFile, wpc, toRecv, fed, notes,
                   overlap, wNewHost, wCalls>>
    /\ UNCHANGED <<mvars, pvars>>
    /\ UNCHANGED wstat

FailReturnsLate(s) == s.sent \/ Len(s.err) <= numErrors

\* if s.sent || len(s.err) < *numErrors { return nil }
FailReturns(s) == s.sent \/ Len(s.err) < numErrors

WFailCheck(i) ==
    /\ gor[i].pc = "fail_check"
    /\ gor' = [gor EXCEPT ![i].pc = IF FailReturns(heap[gor[i].s])
                                    THEN "send" ELSE "fail_notify"]
    /\ UNCHANGED <<wHosts, errors, heap, wFile, wpc, toRecv, fed,
                   notes, overlap, wNewHost, wCalls>>
    /\ UNCHANGED <<mvars, pvars>>
    /\ UNCHANGED wstat

\* s.sent = true; h.Error = s.err; return h.Notify()
WFailNotify(i) ==
    /\ gor[i].pc = "fail_notify"
    /\ heap' = [heap EXCEPT ![gor[i].s].sent = TRUE]
    /\ wHosts' = [wHosts EXCEPT ![i].Error = heap[gor[i].s].err]
    /\ notes' = [notes EXCEPT ![wHosts[i].Host] = Notify(wHosts'[i])]
    /\ gor' = [gor EXCEPT ![i].pc = "send"]
    /\ UNCHANGED <<errors, wFile, wpc, toRecv, fed, overlap, wNewHost, wCalls>>
    /\ UNCHANGED <<mvars, pvars>>
    /\ UNCHANGED wstat

\* Ping got a 200 and calls OK.  OK, lines 131-138: under the lock,
\* s := r.errors[h.Host]; return when nil; r.errors[h.Host] = nil.
WOKEnter(i) ==
    /\ gor[i].pc = "ping"
    /\ LET n == wHosts[i].Host IN
       /\ gor' = [gor EXCEPT ![i] = IF errors[n] = 0
                                    THEN [Idle EXCEPT !.pc = "send"]
                                    ELSE [Idle EXCEPT !.pc = "ok_check",
                                                      !.s = errors[n]]]
       /\ errors' = [errors EXCEPT ![n] = 0]
    /\ Feed(i, "S")
    /\ UNCHANGED <<wHosts, heap, wFile, wpc, toRecv, notes, wNewHost, wCalls>>
    /\ UNCHANGED <<mvars, pvars>>
    /\ UNCHANGED wstat

OKReturnsAlways(s) == TRUE

OKReturnsNever(s) == FALSE

\* if !s.sent { return nil }
OKReturns(s) == ~s.sent

\* if !s.sent { return nil }; h.Error = nil; return h.Notify()
WOKCheck(i) ==
    /\ gor[i].pc = "ok_check"
    /\ IF OKReturns(heap[gor[i].s])
       THEN UNCHANGED <<wHosts, notes>>
       ELSE /\ wHosts' = [wHosts EXCEPT ![i].Error = <<>>]
            /\ notes' = [notes EXCEPT ![wHosts[i].Host] = Notify(wHosts'[i])]
    /\ gor' = [gor EXCEPT ![i] = [Idle EXCEPT !.pc = "send"]]
    /\ UNCHANGED <<errors, heap, wFile, wpc, toRecv, fed, overlap,
                   wNewHost, wCalls>>
    /\ UNCHANGED <<mvars, pvars>>
    /\ UNCHANGED wstat

\* Runner.NewHost of part_002: under the lock, append, then rewrite the file.
WNewHost(name, email, openOK) ==
    /\ Len(wHosts) < MaxList
    /\ wCalls < MaxNewHost
    /\ wHosts' = Append(wHosts, NewHostObj(name, email))
    /\ IF openOK
       THEN /\ wFile' = wHosts'
            /\ \E t \in {wMtime, wMtime + 1} : t <= MaxMtime /\ wMtime' = t
       ELSE UNCHANGED <<wFile, wMtime>>
    /\ wNil' = FALSE
    /\ wNewHost' = [called |-> TRUE,
                    present |-> \E i \in 1..Len(wHosts) : wHosts[i].Host = name,
                    before |-> Len(wHosts), after |-> Len(wHosts'),
                    ret |-> IF openOK THEN "nil" ELSE "NewHost Open"]
    /\ wCalls' = wCalls + 1
    /\ UNCHANGED <<errors, heap, wpc, toRecv, gor, fed, notes, overlap,
                   wLast, wLoad>>
    /\ UNCHANGED <<mvars, pvars>>

WProbe ==
    \E i \in 1..MaxList :
          \/ WRecv(i)
          \/ \E e \in Reasons : WFailEnter(i, e)
          \/ WFailRead(i)
          \/ WFailWrite(i)
          \/ WFailCheck(i)
          \/ WFailNotify(i)
          \/ WOKEnter(i)
          \/ WOKCheck(i)

\* The poller and its probes over the rule file.
WNext ==
    \/ WLoadRules(MaxFed)
    \/ WLaunch
    \/ WRange
    \/ WSleep
    \/ WProbe


\* The same with the /newhost handler calling NewHost at any moment.
WAddNext ==
    \/ WLoadRules(MaxFedAdd)
    \/ WLaunch
    \/ WRange
    \/ WSleep
    \/ WProbe
    \/ \E name \in HostNames, openOK \in BOOLEAN :
          WNewHost(name, "x@example.net", openOK)

WAddInit == WInitWith({<<NewHostObj("a.example", "x@example.net")>>})

\* What somebody who edits or replaces the rule file may leave in it: one
\* host, two hosts, and a list as NewHost writes it after a notification,
\* with an Error list that does not decode.
ReplacedFiles ==
    {<<NewHostObj("a.example", "x@example.net")>>,
     <<NewHostObj("a.example", "x@example.net"),
       NewHostObj("b.example", "y@example.net")>>,
     <<[NewHostObj("a.example", "x@example.net") EXCEPT !.Error = <<"timeout">>]>>}

\* The rule file is edited or replaced from outside; the new file carries
\* any modification time, an older one included.
WReplaceFile(content, t) ==
    /\ wFile' = content
    /\ wMtime' = t
    /\ wFile' # wFile \/ wMtime' # wMtime
    /\ UNCHANGED <<wHosts, errors, heap, wpc, toRecv, gor, fed, notes, overlap,
                   wNewHost, wCalls, wLast, wNil, wLoad>>
    /\ UNCHANGED <<mvars, pvars>>

\* The poller over a rule file that changes under it, NewHost included, with
\* hosts that answer every probe with a 200.
WReloadNext ==
    \/ WLoadRules(MaxFedReload)
    \/ WLaunch
    \/ WRange
    \/ WSleep
    \/ \E i \in 1..MaxList : WRecv(i)
    \/ \E i \in 1..MaxList : WOKEnter(i)
    \/ \E name \in HostNames, openOK \in BOOLEAN :
          WNewHost(name, "x@example.net", openOK)
    \/ \E content \in ReplacedFiles, t \in 1..MaxMtime : WReplaceFile(content, t)


--------------------------------------------------------------------------
(***************************************************************************)
(* main.go: the ring buffer of the first runner.                           *)
(***************************************************************************)

\* type Host struct { ...; pos int; Latency [bufSize]time.Duration;
\* Error [bufSize]error }
MainHost(name, email) ==
    [Host |-> name, Email |-> email, pos |-> 0,
     Latency |-> [i \in 0..(mainBufSize - 1) |-> 0],
     Error |-> [i \in 0..(mainBufSize - 1) |-> NilError]]

MainNames == {"a.example"}

MInitWith(names) ==
    /\ mHosts = [n \in names |-> MainHost(n, "x@example.net")]
    /\ mCount = [n \in names |-> 0]
    /\ mStamp = [n \in names |-> [i \in 0..(mainBufSize - 1) |-> 0]]
    /\ mpc = "loop"
    /\ mName = ""
    /\ mTodo = {}
    /\ mWaitLeft = 0
    /\ mGs = <<>>
    /\ mRound = 0

MInit == MInitWith(MainNames)

\* h.pos = (h.pos + 1) % 10
MainAdvance(pos) == (pos + 1) % mainPosMod

MStamped(n) ==
    /\ mCount' = [mCount EXCEPT ![n] = @ + 1]
    /\ mStamp' = [mStamp EXCEPT ![n][mHosts'[n].pos] = mCount'[n]]

\* Runner.OK of main.go, between h.Lock() and h.Unlock()
MainRecordOK(h, duration) ==
    [h EXCEPT !.pos = MainAdvance(h.pos),
              !.Latency[MainAdvance(h.pos)] = duration,
              !.Error[MainAdvance(h.pos)] = NilError]

\* Runner.Fail of main.go, between h.Lock() and h.Unlock()
MainRecordFail(h, getErr) ==
    [h EXCEPT !.pos = MainAdvance(h.pos),
              !.Error[MainAdvance(h.pos)] = getErr]

\* Runner.OK of main.go
OK_main(n, duration) ==
    /\ mCount[n] < MainMaxRecords
    /\ mHosts' = [mHosts EXCEPT ![n] = MainRecordOK(@, duration)]
    /\ MStamped(n)
    /\ UNCHANGED mpoll
    /\ UNCHANGED <<wvars, pvars>>

\* Runner.Fail of main.go
Fail_main(n, getErr) ==
    /\ mCount[n] < MainMaxRecords
    /\ mHosts' = [mHosts EXCEPT ![n] = MainRecordFail(@, getErr)]
    /\ MStamped(n)
    /\ UNCHANGED mpoll
    /\ UNCHANGED <<wvars, pvars>>

RangeLenNone(hosts) == 0

\* for _ = range r.Hosts: one iteration for every entry of the map
RangeLen(hosts) == Cardinality(DOMAIN hosts)

\* for { errc := make(chan error); for name, _ := range r.Hosts
MTick ==
    /\ mpc = "loop"
    /\ mRound < MaxRounds
    /\ mRound' = mRound + 1
    /\ mTodo' = DOMAIN mHosts
    /\ mName' = ""
    /\ mpc' = "launch"
    /\ UNCHANGED <<mHosts, mCount, mStamp, mWaitLeft, mGs>>
    /\ UNCHANGED <<wvars, pvars>>

\* The next iteration assigns name and starts go func() { ... }(): the
\* closure takes no argument, it refers to the loop's one variable name.
MLaunch(n) ==
    /\ mpc = "launch"
    /\ n \in mTodo
    /\ mTodo' = mTodo \ {n}
    /\ mName' = n
    /\ mGs' = Append(mGs, [host |-> "", pc |-> "start", round |-> mRound,
                           into |-> ""])
    /\ UNCHANGED <<mHosts, mCount, mStamp, mpc, mWaitLeft, mRound>>
    /\ UNCHANGED <<wvars, pvars>>

\* The launch loop ends; for _ = range r.Hosts starts.
MLaunchEnd ==
    /\ mpc = "launch"
    /\ mTodo = {}
    /\ mWaitLeft' = RangeLen(mHosts)
    /\ mpc' = "wait"
    /\ UNCHANGED <<mHosts, mCount, mStamp, mName, mTodo, mGs, mRound>>
    /\ UNCHANGED <<wvars, pvars>>

\* h := r.Hosts[name], in the goroutine: name is read whenever the goroutine
\* gets to run, with the value the loop has given it by then.
MGStart(g) ==
    /\ g \in 1..Len(mGs)
    /\ mGs[g].pc = "start"
    /\ mGs' = [mGs EXCEPT ![g].pc = "get", ![g].host = mName]
    /\ UNCHANGED <<mHosts, mCount, mStamp, mpc, mName, mTodo, mWaitLeft, mRound>>
    /\ UNCHANGED <<wvars, pvars>>

\* The *Host the goroutine looked up: Ping builds its URL from h.Host and
\* hands the same h to OK or Fail.
MainProbed(g) == mGs[g].host

\* Ping: the GET answered with a 200; r.OK(h, duration)
MGPingOK(g, duration) ==
    /\ g \in 1..Len(mGs)
    /\ mGs[g].pc = "get"
    /\ mHosts' = [mHosts EXCEPT ![MainProbed(g)] = MainRecordOK(@, duration)]
    /\ MStamped(MainProbed(g))
    /\ mGs' = [mGs EXCEPT ![g].pc = "send", ![g].into = MainProbed(g)]
    /\ UNCHANGED <<mpc, mName, mTodo, mWaitLeft, mRound>>
    /\ UNCHANGED <<wvars, pvars>>

\* Ping: the GET failed or answered with another status; r.Fail(h, err)
MGPingFail(g, getErr) ==
    /\ g \in 1..Len(mGs)
    /\ mGs[g].pc = "get"
    /\ mHosts' = [mHosts EXCEPT ![MainProbed(g)] = MainRecordFail(@, getErr)]
    /\ MStamped(MainProbed(g))
    /\ mGs' = [mGs EXCEPT ![g].pc = "send", ![g].into = MainProbed(g)]
    /\ UNCHANGED <<mpc, mName, mTodo, mWaitLeft, mRound>>
    /\ UNCHANGED <<wvars, pvars>>

\* if err := <-errc; err != nil { log.Println(err) }
MRecv(g) ==
    /\ mpc = "wait"
    /\ mWaitLeft > 0
    /\ g \in 1..Len(mGs)
    /\ mGs[g].pc = "send"
    /\ mGs' = [mGs EXCEPT ![g].pc = "done"]
    /\ mWaitLeft' = mWaitLeft - 1
    /\ UNCHANGED <<mHosts, mCount, mStamp, mpc, mName, mTodo, mRound>>
    /\ UNCHANGED <<wvars, pvars>>

\* The receive loop ends; r.save(); time.Sleep(poll).  The map has not
\* changed, so save writes the file it read.
MSave ==
    /\ mpc = "wait"
    /\ mWaitLeft = 0
    /\ mpc' = "loop"
    /\ UNCHANGED <<mHosts, mCount, mStamp, mName, mTodo, mWaitLeft, mGs, mRound>>
    /\ UNCHANGED <<wvars, pvars>>

MaxMainGs == MaxRounds * Cardinality(HostNames)

\* The poller of main.go and its goroutines.
MPollNext ==
    \/ MTick
    \/ \E n \in HostNames : MLaunch(n)
    \/ MLaunchEnd
    \/ \E g \in 1..MaxMainGs : MGStart(g)
    \/ \E g \in 1..MaxMainGs : MGPingOK(g, 10 * Millisecond)
    \/ \E g \in 1..MaxMainGs, e \in Reasons : MGPingFail(g, e)
    \/ \E g \in 1..MaxMainGs : MRecv(g)
    \/ MSave

MNext ==
    \/ \E n \in MainNames : OK_main(n, 10 * Millisecond)
    \/ \E n \in MainNames, e \in Reasons : Fail_main(n, e)

--------------------------------------------------------------------------
(***************************************************************************)
(* part_001: the ring buffer and the registry.                             *)
(***************************************************************************)

\* type Host struct { Host, Email string; sync.Mutex; pos int;
\* Latency [bufSize]time.Duration; Error [bufSize]error;
\* CollectionTime [bufSize]time.Time }
Host(name, email) ==
    [Host |-> name, Email |-> email, pos |-> 0,
     Latency |-> [i \in 0..(bufSize - 1) |-> 0],
     Error |-> [i \in 0..(bufSize - 1) |-> NilError],
     CollectionTime |-> [i \in 0..(bufSize - 1) |-> 0]]

AdvanceStuck(pos) == pos % bufSize

\* h.pos = (h.pos + 1) % bufSize
Advance(pos) == (pos + 1) % bufSize

RecordOKThenAdvance(h, duration, t) ==
    [h EXCEPT !.pos = Advance(h.pos),
              !.Latency[h.pos] = duration,
              !.CollectionTime[h.pos] = t,
              !.Error[h.pos] = NilError]

\* Runner.OK, between h.Lock() and h.Unlock()
RecordOK(h, duration, t) ==
    [h EXCEPT !.pos = Advance(h.pos),
              !.Latency[Advance(h.pos)] = duration,
              !.CollectionTime[Advance(h.pos)] = t,
              !.Error[Advance(h.pos)] = NilError]

\* Runner.Fail, between h.Lock() and h.Unlock()
RecordFail(h, getErr, t) ==
    [h EXCEPT !.pos = Advance(h.pos),
              !.CollectionTime[Advance(h.pos)] = t,
              !.Error[Advance(h.pos)] = getErr]

StatusPrevious(h) ==
    IF h.Error[(h.pos + bufSize - 1) % bufSize] # NilError
    THEN "Error: " \o h.Error[(h.pos + bufSize - 1) % bufSize]
    ELSE ToString(h.Latency[(h.pos + bufSize - 1) % bufSize] \div Millisecond) \o "ms"

\* Host.Status
Status(h) ==
    IF h.Error[h.pos] # NilError
    THEN "Error: " \o h.Error[h.pos]
    ELSE ToString(h.Latency[h.pos] \div Millisecond) \o "ms"

TotalRecs == Len(rec["a.example"]) + Len(rec["b.example"]) + Len(rec["c.example"])

OK(n, duration) ==
    /\ n \in DOMAIN Hosts
    /\ TotalRecs < MaxRecords
    /\ Hosts' = [Hosts EXCEPT ![n] = RecordOK(@, duration, now)]
    /\ rec' = [rec EXCEPT ![n] = Append(@, [ok |-> TRUE, d |-> duration,
                                            e |-> NilError, t |-> now])]
    /\ now' = now + 1
    /\ UNCHANGED <<bufSize, maxHosts, loaded, rLock, call, calls, pFile>>
    /\ UNCHANGED <<wvars, mvars, serve, boot>>
    /\ UNCHANGED poll

Fail(n, getErr) ==
    /\ n \in DOMAIN Hosts
    /\ TotalRecs < MaxRecords
    /\ Hosts' = [Hosts EXCEPT ![n] = RecordFail(@, getErr, now)]
    /\ rec' = [rec EXCEPT ![n] = Append(@, [ok |-> FALSE, d |-> 0,
                                            e |-> getErr, t |-> now])]
    /\ now' = now + 1
    /\ UNCHANGED <<bufSize, maxHosts, loaded, rLock, call, calls, pFile>>
    /\ UNCHANGED <<wvars, mvars, serve, boot>>
    /\ UNCHANGED poll

EncodedNothing(hosts) == [n \in {} |-> ""]

\* What json.Encoder writes of the map: Host and Email of every entry.
Encoded(hosts) == [n \in DOMAIN hosts |-> hosts[n].Email]

NoPing == [pc |-> "idle", host |-> "", ok |-> FALSE, d |-> 0, e |-> NilError]

NoPage == [pc |-> "idle", host |-> "", i |-> 0, lat |-> 0, rows |-> <<>>,
           pages |-> 0]

NoRequest == [pc |-> "idle", name |-> ""]

NoCall == [pc |-> "idle", name |-> "", email |-> "", ret |-> "",
           present |-> FALSE, size |-> 0, saved |-> "", inserted |-> {},
           wrote |-> {}]

PInitWith(sizes, flags, loads) ==
    /\ bufSize \in sizes
    /\ maxHosts \in flags
    /\ \E names \in loads :
          /\ Hosts = [n \in names |-> Host(n, "x@example.net")]
          /\ pFile = [n \in names |-> "x@example.net"]
          /\ loaded = names
    /\ ppc = "tick"
    /\ todo = {}
    /\ waitLeft = 0
    /\ gs = <<>>
    /\ round = 0
    /\ now = 1
    /\ rec = [n \in RegNames |-> <<>>]
    /\ rLock = 0
    /\ call = [c \in 1..MaxCallers |-> NoCall]
    /\ calls = 0
    /\ hLock = [n \in RegNames |-> 0]
    /\ pg = NoPing
    /\ hr = NoPage
    /\ wl = [pc |-> "idle", todo |-> {}, host |-> "", out |-> <<>>, pages |-> 0]
    /\ hand = [c \in 1..MaxCallers |-> NoRequest]
    /\ whole = {}
    /\ pLast = 1
    /\ pMtime = 1
    /\ pNil = FALSE

\* if h, ok := r.Hosts[h.Host]; ok
Present(name) == name \in DOMAIN Hosts

FullLate(size) == size > maxHosts

FullNever(size) == FALSE

\* if len(r.Hosts)+1 > *maxHosts
Full(size) == size + 1 > maxHosts

UnlockLost(lock) == lock

\* sync.Mutex Unlock: the lock has no holder
Unlock(lock) == 0

\* The /newhost handler calls runner.NewHost(host): r.Lock()
NHLock(c, name, email) ==
    /\ call[c].pc = "idle"
    /\ calls < MaxCalls
    /\ rLock = 0
    /\ rLock' = c
    /\ call' = [call EXCEPT ![c] = [NoCall EXCEPT !.pc = "check", !.name = name,
                                                  !.email = email]]
    /\ calls' = calls + 1
    /\ UNCHANGED <<bufSize, maxHosts, loaded, Hosts, now, rec, pFile>>
    /\ UNCHANGED <<wvars, mvars, serve, boot>>
    /\ UNCHANGED poll

\* The two checks of NewHost, each with its r.Unlock() and return.
NHCheck(c) ==
    /\ call[c].pc = "check"
    /\ call' = [call EXCEPT ![c].present = Present(call[c].name),
                            ![c].size = Cardinality(DOMAIN Hosts),
                            ![c].pc = IF Present(call[c].name)
                                         \/ Full(Cardinality(DOMAIN Hosts))
                                      THEN "idle" ELSE "insert",
                            ![c].ret = IF Present(call[c].name)
                                       THEN "Host already being monitored"
                                       ELSE IF Full(Cardinality(DOMAIN Hosts))
                                       THEN "Maximum number of monitored hosts reached"
                                       ELSE ""]
    /\ rLock' = IF call'[c].pc = "idle" THEN Unlock(rLock) ELSE rLock
    /\ UNCHANGED <<bufSize, maxHosts, loaded, Hosts, now, rec, calls, pFile>>
    /\ UNCHANGED <<wvars, mvars, serve, boot>>
    /\ UNCHANGED poll

\* The poller ranges over r.Hosts without the lock.  An entry inserted while
\* a range loop runs is produced by that loop or skipped, as the runtime's
\* map iterator happens to go.
RangeSees(name) ==
    \/ ppc = "launch" /\ todo' = todo \cup {name} /\ UNCHANGED waitLeft
    \/ ppc = "wait" /\ waitLeft' = waitLeft + 1 /\ UNCHANGED todo
    \/ UNCHANGED <<todo, waitLeft>>

\* r.Hosts[h.Host] = h; r.Unlock()
NHInsert(c) ==
    /\ call[c].pc = "insert"
    /\ IF pNil
       THEN \* assignment to entry in nil map: the goroutine of the request
            \* panics, and no r.Unlock() is deferred
            /\ call' = [call EXCEPT ![c].pc = "panic", ![c].ret = "panic"]
            /\ UNCHANGED <<Hosts, rLock, todo, waitLeft>>
       ELSE /\ Hosts' = [n \in DOMAIN Hosts \cup {call[c].name} |->
                          IF n = call[c].name THEN Host(n, call[c].email)
                                              ELSE Hosts[n]]
            /\ rLock' = Unlock(rLock)
            /\ call' = [call EXCEPT ![c].pc = "save",
                                    ![c].inserted = DOMAIN Hosts']
            /\ RangeSees(call[c].name)
    /\ UNCHANGED <<ppc, gs, round>>
    /\ UNCHANGED <<bufSize, maxHosts, loaded, now, rec, calls, pFile>>
    /\ UNCHANGED <<wvars, mvars, serve, boot>>

\* r.save(): os.OpenFile; when it fails save returns the error, which NewHost
\* drops: NewHost returns nil.
SaveOpen(c, openOK) ==
    /\ call[c].pc = "save"
    /\ call' = [call EXCEPT ![c].pc = IF openOK THEN "save_lock" ELSE "idle",
                            ![c].ret = "nil",
                            ![c].saved = IF openOK THEN "" ELSE "save Open"]
    /\ UNCHANGED <<bufSize, maxHosts, loaded, Hosts, now, rec, rLock, calls, pFile>>
    /\ UNCHANGED <<wvars, mvars, serve, boot>>
    /\ UNCHANGED poll

\* r.Lock() in save
SaveLock(c) ==
    /\ call[c].pc = "save_lock"
    /\ rLock = 0
    /\ rLock' = c
    /\ call' = [call EXCEPT ![c].pc = "save_encode"]
    /\ UNCHANGED <<bufSize, maxHosts, loaded, Hosts, now, rec, calls, pFile>>
    /\ UNCHANGED <<wvars, mvars, serve, boot>>
    /\ UNCHANGED poll

\* json.NewEncoder(f).Encode(r.Hosts); r.Unlock(); return nil
SaveEncode(c) ==
    /\ call[c].pc = "save_encode"
    /\ pFile' = Encoded(Hosts)
    /\ rLock' = Unlock(rLock)
    /\ call' = [call EXCEPT ![c].pc = "idle", ![c].saved = "nil",
                            ![c].wrote = DOMAIN pFile']
    /\ UNCHANGED <<bufSize, maxHosts, loaded, Hosts, now, rec, calls>>
    /\ UNCHANGED <<wvars, mvars, serve, boot>>
    /\ UNCHANGED poll

\* The poller takes the registry lock in save under this name.
PollerId == MaxCallers + 1

MaxGs == MaxRounds * Cardinality(RegNames)

\* for _ = range tick { errc := make(chan error); for _, h := range r.Hosts
PTick ==
    /\ ppc = "tick"
    /\ round < MaxRounds
    /\ round' = round + 1
    /\ todo' = DOMAIN Hosts
    /\ ppc' = "launch"
    /\ UNCHANGED <<bufSize, maxHosts, loaded, Hosts, now, rec, rLock, call, calls,
                   pFile, waitLeft, gs>>
    /\ UNCHANGED <<wvars, mvars, serve, boot>>

\* go func(host *Host) { errc <- r.Ping(host) }(h)
PLaunch(n) ==
    /\ ppc = "launch"
    /\ n \in todo
    /\ todo' = todo \ {n}
    /\ gs' = Append(gs, [host |-> n, pc |-> "get", round |-> round, into |-> ""])
    /\ UNCHANGED <<bufSize, maxHosts, loaded, Hosts, now, rec, rLock, call, calls,
                   pFile, ppc, waitLeft, round>>
    /\ UNCHANGED <<wvars, mvars, serve, boot>>

\* The launch loop ends; for _ = range r.Hosts starts.
PLaunchEnd ==
    /\ ppc = "launch"
    /\ todo = {}
    /\ waitLeft' = RangeLen(Hosts)
    /\ ppc' = "wait"
    /\ UNCHANGED <<bufSize, maxHosts, loaded, Hosts, now, rec, rLock, call, calls,
                   pFile, todo, gs, round>>
    /\ UNCHANGED <<wvars, mvars, serve, boot>>

ProbedFirst(g) == CHOOSE n \in DOMAIN Hosts : TRUE

\* The *Host a goroutine was given: Ping builds its URL from h.Host and
\* hands the same h to OK or Fail.
Probed(g) == gs[g].host

\* Ping: the GET answered with a 200; r.OK(h, duration)
GPingOK(g, duration) ==
    /\ g \in 1..Len(gs)
    /\ gs[g].pc = "get"
    /\ Hosts' = [Hosts EXCEPT ![Probed(g)] = RecordOK(@, duration, now)]
    /\ rec' = [rec EXCEPT ![Probed(g)] = Append(@, [ok |-> TRUE, d |-> duration,
                                                    e |-> NilError, t |-> now])]
    /\ now' = now + 1
    /\ gs' = [gs EXCEPT ![g].pc = "send", ![g].into = Probed(g)]
    /\ UNCHANGED <<bufSize, maxHosts, loaded, rLock, call, calls, pFile, ppc, todo,
                   waitLeft, round>>
    /\ UNCHANGED <<wvars, mvars, serve, boot>>

\* Ping: the GET failed or answered with another status; r.Fail(h, err)
GPingFail(g, getErr) ==
    /\ g \in 1..Len(gs)
    /\ gs[g].pc = "get"
    /\ Hosts' = [Hosts EXCEPT ![Probed(g)] = RecordFail(@, getErr, now)]
    /\ rec' = [rec EXCEPT ![Probed(g)] = Append(@, [ok |-> FALSE, d |-> 0,
                                                    e |-> getErr, t |-> now])]
    /\ now' = now + 1
    /\ gs' = [gs EXCEPT ![g].pc = "send", ![g].into = Probed(g)]
    /\ UNCHANGED <<bufSize, maxHosts, loaded, rLock, call, calls, pFile, ppc, todo,
                   waitLeft, round>>
    /\ UNCHANGED <<wvars, mvars, serve, boot>>

\* if err := <-errc; err != nil { log.Println(err) }
PRecv(g) ==
    /\ ppc = "wait"
    /\ waitLeft > 0
    /\ g \in 1..Len(gs)
    /\ gs[g].pc = "send"
    /\ gs' = [gs EXCEPT ![g].pc = "done"]
    /\ waitLeft' = waitLeft - 1
    /\ UNCHANGED <<bufSize, maxHosts, loaded, Hosts, now, rec, rLock, call, calls,
                   pFile, ppc, todo, round>>
    /\ UNCHANGED <<wvars, mvars, serve, boot>>

\* The receive loop ends; r.save(): os.OpenFile.  The poller drops the error
\* of save.
PSaveOpen(openOK) ==
    /\ ppc = "wait"
    /\ waitLeft = 0
    /\ ppc' = IF openOK THEN "save_lock" ELSE "tick"
    /\ UNCHANGED <<bufSize, maxHosts, loaded, Hosts, now, rec, rLock, call, calls,
                   pFile, todo, waitLeft, gs, round>>
    /\ UNCHANGED <<wvars, mvars, serve, boot>>

\* r.Lock() in save
PSaveLock ==
    /\ ppc = "save_lock"
    /\ rLock = 0
    /\ rLock' = PollerId
    /\ ppc' = "save_encode"
    /\ UNCHANGED <<bufSize, maxHosts, loaded, Hosts, now, rec, call, calls,
                   pFile, todo, waitLeft, gs, round>>
    /\ UNCHANGED <<wvars, mvars, serve, boot>>

\* json.NewEncoder(f).Encode(r.Hosts); r.Unlock(); the next tick
PSaveEncode ==
    /\ ppc = "save_encode"
    /\ pFile' = Encoded(Hosts)
    /\ rLock' = Unlock(rLock)
    /\ ppc' = "tick"
    /\ UNCHANGED <<bufSize, maxHosts, loaded, Hosts, now, rec, call, calls,
                   todo, waitLeft, gs, round>>
    /\ UNCHANGED <<wvars, mvars, serve, boot>>

\* The poller of part_001, its Ping goroutines and one /newhost handler.
PollNext ==
    \/ PTick
    \/ \E n \in RegNames : PLaunch(n)
    \/ PLaunchEnd
    \/ \E g \in 1..MaxGs : GPingOK(g, 10 * Millisecond)
    \/ \E g \in 1..MaxGs, e \in Reasons : GPingFail(g, e)
    \/ \E g \in 1..MaxGs : PRecv(g)
    \/ \E openOK \in BOOLEAN : PSaveOpen(openOK)
    \/ PSaveLock
    \/ PSaveEncode
    \/ calls < MaxPollCalls /\ NHLock(1, "b.example", "y@example.net")
    \/ NHCheck(1)
    \/ NHInsert(1)
    \/ \E openOK \in BOOLEAN : SaveOpen(1, openOK)
    \/ SaveLock(1)
    \/ SaveEncode(1)

--------------------------------------------------------------------------
(***************************************************************************)
(* part_001 with its web handlers: a Ping step by step, /history, / and    *)
(* /newhost.                                                               *)
(***************************************************************************)

\* The holders of the locks besides the /newhost handlers and the poller.
WelcomeId == MaxCallers + 2
ProberId == MaxCallers + 3

\* go func(host *Host) { errc <- r.Ping(host) }(h): getWithTimeout is in flight.
PingStart(n) ==
    /\ pg.pc = "idle"
    /\ n \in DOMAIN Hosts
    /\ TotalRecs < MaxServeRecs
    /\ pg' = [NoPing EXCEPT !.pc = "get", !.host = n]
    /\ UNCHANGED <<bufSize, maxHosts, loaded, Hosts, now, rec, rLock, call, calls,
                   pFile, poll>>
    /\ UNCHANGED <<hLock, hr, wl, hand, whole>>
    /\ UNCHANGED <<wvars, mvars, boot>>

\* getWithTimeout returns: Ping calls OK with the duration or Fail with the
\* error.
PingGot(ok, d, e) ==
    /\ pg.pc = "get"
    /\ pg' = [pg EXCEPT !.pc = "lock", !.ok = ok,
                        !.d = IF ok THEN d ELSE 0,
                        !.e = IF ok THEN NilError ELSE e]
    /\ UNCHANGED <<bufSize, maxHosts, loaded, Hosts, now, rec, rLock, call, calls,
                   pFile, poll>>
    /\ UNCHANGED <<hLock, hr, wl, hand, whole>>
    /\ UNCHANGED <<wvars, mvars, boot>>

\* h.Lock() in OK and Fail
PingLock ==
    /\ pg.pc = "lock"
    /\ hLock[pg.host] = 0
    /\ hLock' = [hLock EXCEPT ![pg.host] = ProberId]
    /\ pg' = [pg EXCEPT !.pc = "pos"]
    /\ UNCHANGED <<bufSize, maxHosts, loaded, Hosts, now, rec, rLock, call, calls,
                   pFile, poll>>
    /\ UNCHANGED <<hr, wl, hand, whole>>
    /\ UNCHANGED <<wvars, mvars, boot>>

\* h.pos = (h.pos + 1) % bufSize
PingPos ==
    /\ pg.pc = "pos"
    /\ Hosts' = [Hosts EXCEPT ![pg.host].pos = Advance(@)]
    /\ pg' = [pg EXCEPT !.pc = IF pg.ok THEN "lat" ELSE "time"]
    /\ UNCHANGED <<bufSize, maxHosts, loaded, now, rec, rLock, call, calls,
                   pFile, poll>>
    /\ UNCHANGED <<hLock, hr, wl, hand, whole>>
    /\ UNCHANGED <<wvars, mvars, boot>>

\* h.Latency[h.pos] = duration, in OK only
PingLatency ==
    /\ pg.pc = "lat"
    /\ Hosts' = [Hosts EXCEPT ![pg.host].Latency[Hosts[pg.host].pos] = pg.d]
    /\ pg' = [pg EXCEPT !.pc = "time"]
    /\ UNCHANGED <<bufSize, maxHosts, loaded, now, rec, rLock, call, calls,
                   pFile, poll>>
    /\ UNCHANGED <<hLock, hr, wl, hand, whole>>
    /\ UNCHANGED <<wvars, mvars, boot>>

\* h.CollectionTime[h.pos] = time.Now()
PingTime ==
    /\ pg.pc = "time"
    /\ Hosts' = [Hosts EXCEPT ![pg.host].CollectionTime[Hosts[pg.host].pos] = now]
    /\ now' = now + 1
    /\ pg' = [pg EXCEPT !.pc = "err"]
    /\ UNCHANGED <<bufSize, maxHosts, loaded, rec, rLock, call, calls,
                   pFile, poll>>
    /\ UNCHANGED <<hLock, hr, wl, hand, whole>>
    /\ UNCHANGED <<wvars, mvars, boot>>

\* The (Latency, CollectionTime) pairs of the slots of h.
Pairs(h) == {<<h.Latency[i], h.CollectionTime[i]>> : i \in 0..(bufSize - 1)}

\* h.Error[h.pos] = nil, or getErr in Fail; h.Unlock(); return nil
PingError ==
    /\ pg.pc = "err"
    /\ Hosts' = [Hosts EXCEPT ![pg.host].Error[Hosts[pg.host].pos] = pg.e]
    /\ hLock' = [hLock EXCEPT ![pg.host] = Unlock(@)]
    /\ rec' = [rec EXCEPT ![pg.host] =
                 Append(@, [ok |-> pg.ok, d |-> pg.d, e |-> pg.e,
                            t |-> Hosts[pg.host].CollectionTime[Hosts[pg.host].pos]])]
    /\ whole' = whole \cup Pairs(Hosts'[pg.host])
    /\ pg' = NoPing
    /\ UNCHANGED <<bufSize, maxHosts, loaded, now, rLock, call, calls,
                   pFile, poll>>
    /\ UNCHANGED <<hr, wl, hand>>
    /\ UNCHANGED <<wvars, mvars, boot>>

\* history.go 9-22: h, ok := runner.Hosts[host]; historyTmpl.Execute(w, h).
\* No lock is taken.
HistoryStart(n) ==
    /\ hr.pc = "idle"
    /\ hr.pages < MaxPages
    /\ n \in DOMAIN Hosts
    /\ hr' = [NoPage EXCEPT !.pc = "lat", !.host = n, !.pages = hr.pages + 1]
    /\ UNCHANGED <<bufSize, maxHosts, loaded, Hosts, now, rec, rLock, call, calls,
                   pFile, poll>>
    /\ UNCHANGED <<hLock, pg, wl, hand, whole>>
    /\ UNCHANGED <<wvars, mvars, boot>>

\* The template goes on to the next element of .Latency, or ends.
NextIndex(page) ==
    IF page.i + 1 < bufSize
    THEN [page EXCEPT !.pc = "lat", !.i = page.i + 1]
    ELSE [page EXCEPT !.pc = "idle"]

\* {{ range $index, $latency := .Latency }} {{ if $latency }}
HistoryLatency ==
    /\ hr.pc = "lat"
    /\ LET lat == Hosts[hr.host].Latency[hr.i] IN
       hr' = IF lat # 0 THEN [hr EXCEPT !.pc = "time", !.lat = lat]
                        ELSE NextIndex(hr)
    /\ UNCHANGED <<bufSize, maxHosts, loaded, Hosts, now, rec, rLock, call, calls,
                   pFile, poll>>
    /\ UNCHANGED <<hLock, pg, wl, hand, whole>>
    /\ UNCHANGED <<wvars, mvars, boot>>

\* [new Date({{ index $.CollectionTime $index }}), {{ $latency.Seconds }} ],
HistoryTime ==
    /\ hr.pc = "time"
    /\ hr' = NextIndex([hr EXCEPT !.rows =
                  Append(@, <<hr.lat, Hosts[hr.host].CollectionTime[hr.i]>>)])
    /\ UNCHANGED <<bufSize, maxHosts, loaded, Hosts, now, rec, rLock, call, calls,
                   pFile, poll>>
    /\ UNCHANGED <<hLock, pg, wl, hand, whole>>
    /\ UNCHANGED <<wvars, mvars, boot>>

\* welcome, server.go 18-32: runner.Lock(); defer runner.Unlock();
\* welcomeTmpl.Execute(w, runner) ranges over .Hosts.
WelcomeLock ==
    /\ wl.pc = "idle"
    /\ wl.pages < MaxPages
    /\ rLock = 0
    /\ rLock' = WelcomeId
    /\ wl' = [pc |-> "range", todo |-> DOMAIN Hosts, host |-> "",
              out |-> <<>>, pages |-> wl.pages + 1]
    /\ UNCHANGED <<bufSize, maxHosts, loaded, Hosts, now, rec, call, calls,
                   pFile, poll>>
    /\ UNCHANGED <<hLock, pg, hr, hand, whole>>
    /\ UNCHANGED <<wvars, mvars, boot>>

\* {{ .Status }} of the next host: h.Lock(); defer h.Unlock()
WelcomeStatusLock(n) ==
    /\ wl.pc = "range"
    /\ n \in wl.todo
    /\ hLock[n] = 0
    /\ hLock' = [hLock EXCEPT ![n] = WelcomeId]
    /\ wl' = [wl EXCEPT !.pc = "status", !.host = n]
    /\ UNCHANGED <<bufSize, maxHosts, loaded, Hosts, now, rec, rLock, call, calls,
                   pFile, poll>>
    /\ UNCHANGED <<pg, hr, hand, whole>>
    /\ UNCHANGED <<wvars, mvars, boot>>

\* The body of Status and its deferred h.Unlock()
WelcomeStatus ==
    /\ wl.pc = "status"
    /\ wl' = [wl EXCEPT !.pc = "range", !.todo = @ \ {wl.host},
                        !.out = Append(@, Status(Hosts[wl.host]))]
    /\ hLock' = [hLock EXCEPT ![wl.host] = Unlock(@)]
    /\ UNCHANGED <<bufSize, maxHosts, loaded, Hosts, now, rec, rLock, call, calls,
                   pFile, poll>>
    /\ UNCHANGED <<pg, hr, hand, whole>>
    /\ UNCHANGED <<wvars, mvars, boot>>

\* The template ends; the deferred runner.Unlock()
WelcomeUnlock ==
    /\ wl.pc = "range"
    /\ wl.todo = {}
    /\ rLock' = Unlock(rLock)
    /\ wl' = [wl EXCEPT !.pc = "idle"]
    /\ UNCHANGED <<bufSize, maxHosts, loaded, Hosts, now, rec, call, calls,
                   pFile, poll>>
    /\ UNCHANGED <<hLock, pg, hr, hand, whole>>
    /\ UNCHANGED <<wvars, mvars, boot>>

\* newhost, server.go 159-172: the form values are there; net.LookupIP is in
\* flight.
NewhostStart(c, name) ==
    /\ hand[c].pc = "idle"
    /\ call[c].pc = "idle"
    /\ calls < MaxServeCalls
    /\ hand' = [hand EXCEPT ![c] = [pc |-> "lookup", name |-> name]]
    /\ call' = [call EXCEPT ![c] = NoCall]
    /\ UNCHANGED <<bufSize, maxHosts, loaded, Hosts, now, rec, rLock, calls,
                   pFile, poll>>
    /\ UNCHANGED <<hLock, pg, hr, wl, whole>>
    /\ UNCHANGED <<wvars, mvars, boot>>

\* LookupIP returns; when the host resolves, getWithTimeout of robots.txt is
\* in flight (lines 172-183).
NewhostResolved(c, ok) ==
    /\ hand[c].pc = "lookup"
    /\ hand' = [hand EXCEPT ![c] = IF ok THEN [@ EXCEPT !.pc = "robots"]
                                         ELSE NoRequest]
    /\ UNCHANGED <<bufSize, maxHosts, loaded, Hosts, now, rec, rLock, call, calls,
                   pFile, poll>>
    /\ UNCHANGED <<hLock, pg, hr, wl, whole>>
    /\ UNCHANGED <<wvars, mvars, boot>>

\* The GET returns; with a 200 and "pingmeplz.com" in the body the handler
\* goes on to runner.NewHost(host) (lines 183-205).
NewhostGot(c, ok) ==
    /\ hand[c].pc = "robots"
    /\ hand' = [hand EXCEPT ![c] = IF ok THEN [@ EXCEPT !.pc = "newhost"]
                                         ELSE NoRequest]
    /\ UNCHANGED <<bufSize, maxHosts, loaded, Hosts, now, rec, rLock, call, calls,
                   pFile, poll>>
    /\ UNCHANGED <<hLock, pg, hr, wl, whole>>
    /\ UNCHANGED <<wvars, mvars, boot>>

\* runner.NewHost(host), line 205
NewhostCall(c) ==
    /\ hand[c].pc = "newhost"
    /\ call[c] = NoCall
    /\ NHLock(c, hand[c].name, "y@example.net")

\* NewHost has returned; the handler writes its answer (lines 205-213).
NewhostDone(c) ==
    /\ hand[c].pc = "newhost"
    /\ call[c].pc = "idle"
    /\ call[c].ret # ""
    /\ hand' = [hand EXCEPT ![c] = NoRequest]
    /\ UNCHANGED <<bufSize, maxHosts, loaded, Hosts, now, rec, rLock, call, calls,
                   pFile, poll>>
    /\ UNCHANGED <<hLock, pg, hr, wl, whole>>
    /\ UNCHANGED <<wvars, mvars, boot>>

\* The steps of a Ping of the one monitored host.
PingNext ==
    \/ PingStart("a.example")
    \/ \E d \in {10 * Millisecond, 20 * Millisecond} : PingGot(TRUE, d, NilError)
    \/ PingGot(FALSE, 0, "timeout")
    \/ PingLock
    \/ PingPos
    \/ PingLatency
    \/ PingTime
    \/ PingError

\* The / handler.
WelcomeNext ==
    \/ WelcomeLock
    \/ \E n \in RegNames : WelcomeStatusLock(n)
    \/ WelcomeStatus
    \/ WelcomeUnlock

\* The probes of the poller and the pages that show their results.
PageNext ==
    \/ PingNext
    \/ WelcomeNext
    \/ HistoryStart("a.example")
    \/ HistoryLatency
    \/ HistoryTime

\* The probes of the poller, the / handler and one /newhost handler.
ServeNext ==
    \/ PingNext
    \/ WelcomeNext
    \/ \E name \in HostNames : NewhostStart(1, name)
    \/ \E ok \in BOOLEAN : NewhostResolved(1, ok)
    \/ \E ok \in BOOLEAN : NewhostGot(1, ok)
    \/ NewhostCall(1)
    \/ NewhostDone(1)
    \/ NHCheck(1)
    \/ NHInsert(1)
    \/ \E openOK \in BOOLEAN : SaveOpen(1, openOK)
    \/ SaveLock(1)
    \/ SaveEncode(1)

--------------------------------------------------------------------------
(***************************************************************************)
(* part_001 from the start of StartRunner.                                 *)
(***************************************************************************)

\* The host files StartRunner is started on, and the files that others put
\* in its place later.
HostFiles ==
    {[n \in names |-> "x@example.net"] : names \in {{}, {"a.example"}, HostNames}}

\* r := new(Runner): r.Hosts is nil and r.last the zero Time.
PBootWith(files) ==
    /\ bufSize = 2
    /\ maxHosts = MaxFlag
    /\ Hosts = [n \in {} |-> Host(n, "")]
    /\ pFile \in files
    /\ loaded = {}
    /\ ppc = "boot"
    /\ todo = {}
    /\ waitLeft = 0
    /\ gs = <<>>
    /\ round = 0
    /\ now = 1
    /\ rec = [n \in RegNames |-> <<>>]
    /\ rLock = 0
    /\ call = [c \in 1..MaxCallers |-> NoCall]
    /\ calls = 0
    /\ hLock = [n \in RegNames |-> 0]
    /\ pg = NoPing
    /\ hr = NoPage
    /\ wl = [pc |-> "idle", todo |-> {}, host |-> "", out |-> <<>>, pages |-> 0]
    /\ hand = [c \in 1..MaxCallers |-> NoRequest]
    /\ whole = {}
    /\ pLast = 0
    /\ pMtime = 1
    /\ pNil = TRUE

\* if mtime.Before(r.last) && r.Hosts != nil { return nil }
PSkips == pMtime < pLast /\ ~pNil

\* What loadRules can return: os.Stat and os.Open fail when the file is
\* missing or unreadable.
PLoadErrors ==
    {"loadRules Stat"} \cup (IF PSkips THEN {"nil"} ELSE {"loadRules Open", "nil"})

\* json.NewDecoder(f).Decode(&Hosts)
PDecoded(file) == [n \in DOMAIN file |-> Host(n, file[n])]

\* StartRunner, lines 181-193: r.loadRules(file), whose error is logged; the
\* warning about -maxHosts; tick := time.Tick(poll) and the poller goroutine.
PLoadRules(err) ==
    /\ ppc = "boot"
    /\ err \in PLoadErrors
    /\ IF err = "nil" /\ ~PSkips
       THEN /\ Hosts' = PDecoded(pFile)
            /\ pLast' = pMtime
            /\ pNil' = FALSE
            /\ loaded' = DOMAIN pFile
       ELSE UNCHANGED <<Hosts, pLast, pNil, loaded>>
    /\ ppc' = "tick"
    /\ UNCHANGED <<bufSize, maxHosts, now, rec, rLock, call, calls, pFile,
                   todo, waitLeft, gs, round, pMtime>>
    /\ UNCHANGED <<wvars, mvars, serve>>

\* Somebody puts another host file in place while the program runs.
PReplaceFile(content) ==
    /\ ppc # "boot"
    /\ pMtime < MaxMtime
    /\ content # pFile
    /\ pFile' = content
    /\ pMtime' = pMtime + 1
    /\ UNCHANGED <<bufSize, maxHosts, loaded, Hosts, now, rec, rLock, call, calls,
                   pLast, pNil>>
    /\ UNCHANGED <<wvars, mvars, serve, poll>>

\* StartRunner, then the poller with its probes, a /newhost request and a
\* host file that changes.
BootNext ==
    \/ \E err \in {"loadRules Stat", "loadRules Open", "nil"} : PLoadRules(err)
    \/ \E content \in HostFiles : PReplaceFile(content)
    \/ PTick
    \/ \E n \in RegNames : PLaunch(n)
    \/ PLaunchEnd
    \/ \E g \in 1..MaxGs : GPingOK(g, 10 * Millisecond)
    \/ \E g \in 1..MaxGs : PRecv(g)
    \/ \E openOK \in BOOLEAN : PSaveOpen(openOK)
    \/ PSaveLock
    \/ PSaveEncode
    \/ ppc # "boot" /\ calls < MaxPollCalls
                    /\ NHLock(1, "b.example", "y@example.net")
    \/ NHCheck(1)
    \/ NHInsert(1)
    \/ \E openOK \in BOOLEAN : SaveOpen(1, openOK)
    \/ SaveLock(1)
    \/ SaveEncode(1)

\* The probes of the poller hand their results to OK and Fail.
HNext ==
    \/ \E n \in RegNames, d \in Durations : OK(n, d)
    \/ \E n \in RegNames, e \in Reasons : Fail(n, e)

\* The /newhost handlers.
RNext ==
    \E c \in 1..MaxCallers :
        \/ \E name \in RegNames, email \in Emails : NHLock(c, name, email)
        \/ NHCheck(c)
        \/ NHInsert(c)
        \/ \E openOK \in BOOLEAN : SaveOpen(c, openOK)
        \/ SaveLock(c)
        \/ SaveEncode(c)

\* The state of the variables of a generation that a specification leaves alone.
PIdle == PInitWith({1}, {1}, {{}})
WIdle == WInitWith({<<>>})

InitHistory == PInitWith(1..MaxBufSize, {MaxFlag}, {HostNames}) /\ WIdle /\ MInit

\* part_001: the probes of the two hosts of the host file.
SpecHistory == InitHistory /\ [][HNext]_vars

InitRegistry == PInitWith({2}, 1..MaxFlag, SUBSET HostNames) /\ WIdle /\ MInit

\* part_001: concurrent /newhost requests.
SpecRegistry == InitRegistry /\ [][RNext]_vars

InitWebmon == WInit /\ MInit /\ PIdle

\* part_002: the poller over every rule file.
SpecWebmon == InitWebmon /\ [][WNext]_vars

InitWebmonAdd == WAddInit /\ MInit /\ PIdle

\* part_002: the poller and NewHost.
SpecWebmonAdd == InitWebmonAdd /\ [][WAddNext]_vars

InitReload == WAddInit /\ MInit /\ PIdle

\* part_002: the poller, NewHost and a rule file that changes.
SpecReload == InitReload /\ [][WReloadNext]_vars

InitPoller == PInitWith({2}, {MaxFlag}, {{"a.example"}, HostNames}) /\ WIdle /\ MInit

\* part_001: the poller with its probes, and a /newhost request.
SpecPoller == InitPoller /\ [][PollNext]_vars

InitMainPoller == MInitWith(HostNames) /\ WIdle /\ PIdle

\* main.go: the poller over two hosts.
SpecMainPoller == InitMainPoller /\ [][MPollNext]_vars

InitServe == PInitWith({2}, {MaxFlag}, {{"a.example"}}) /\ WIdle /\ MInit

\* part_001: one monitored host, its probes, / and /newhost.
SpecServe == InitServe /\ [][ServeNext]_vars

InitPage == PInitWith({1, 2}, {MaxFlag}, {{"a.example"}}) /\ WIdle /\ MInit

\* part_001: one monitored host, its probes, / and /history.
SpecPage == InitPage /\ [][PageNext]_vars

InitBoot == PBootWith(HostFiles) /\ WIdle /\ MInit

\* part_001 from StartRunner on.
SpecBoot == InitBoot /\ [][BootNext]_vars

InitMain == MInit /\ WIdle /\ PIdle

\* main.go: the probes of one host.
SpecMain == InitMain /\ [][MNext]_vars

--------------------------------------------------------------------------
(***************************************************************************)
(* The notification policy of part_002.                                    *)
(***************************************************************************)

\* Every handler call made so far for hostname n has returned.
Settled(n) ==
    \A i \in 1..Len(wHosts) : wHosts[i].Host = n => ~InHandler(gor[i])

\* The handler call that took the q-th outcome of n has returned (when the
\* calls for n never overlapped).
Done(n, q) == q < Len(fed[n]) \/ Settled(n)

\* The notifications sent while the lo-th to hi-th outcome of n was the latest.
NotesAt(n, lo, hi) == SelectSeq(notes[n], LAMBDA x : x.at >= lo /\ x.at <= hi)

AllF(n, lo, hi) == \A k \in lo..hi : fed[n][k].o = "F"

Down(q) == [kind |-> "down", at |-> q]
Recovered(q) == [kind |-> "recovered", at |-> q]

\* C1: a host in state Up that is fed numErrors failures one after the other
\* sends no notification on the first numErrors-1 of them and exactly one
\* "down" notification on the last.
C1_DownOnKthFailure ==
    \A n \in HostNames : ~overlap[n] =>
        \A p \in 1..Len(fed[n]) : \A q \in p..Len(fed[n]) :
            (fed[n][p].st = "Up" /\ AllF(n, p, q) /\ q - p + 1 <= numErrors) =>
                IF q - p + 1 < numErrors
                THEN Done(n, q) => NotesAt(n, p, q) = <<>>
                ELSE /\ NotesAt(n, p, q - 1) = <<>>
                     /\ Done(n, q) => NotesAt(n, p, q) = <<Down(q)>>

C1_Witness ==
    \E n \in HostNames :
        /\ ~overlap[n]
        /\ Settled(n)
        /\ Len(fed[n]) = numErrors
        /\ fed[n][1].st = "Up"
        /\ AllF(n, 1, numErrors)
        /\ notes[n] = <<Down(numErrors)>>

\* C2: a success handed to a host in state DownNotified sends exactly one
\* "recovered" notification, resets the counter to 0 and leaves the host Up:
\* a success that follows sends nothing.
C2_RecoveredOnce ==
    \A n \in HostNames : ~overlap[n] =>
        \A q \in 1..Len(fed[n]) :
            (fed[n][q].o = "S" /\ fed[n][q].st = "DownNotified" /\ Done(n, q)) =>
                /\ NotesAt(n, q, q) = <<Recovered(q)>>
                /\ q = Len(fed[n]) => (PolicyState(n) = "Up" /\ Counter(n) = 0)
                /\ q < Len(fed[n]) =>
                      /\ fed[n][q + 1].st = "Up"
                      /\ fed[n][q + 1].cnt = 0
                      /\ fed[n][q + 1].o = "S" => NotesAt(n, q + 1, q + 1) = <<>>

C2_Witness ==
    \E n \in HostNames :
        /\ ~overlap[n]
        /\ Settled(n)
        /\ Len(fed[n]) = numErrors + 2
        /\ AllF(n, 1, numErrors)
        /\ fed[n][numErrors + 1] = [o |-> "S", st |-> "DownNotified", cnt |-> numErrors]
        /\ fed[n][numErrors + 2].o = "S"
        /\ notes[n] = <<Down(numErrors), Recovered(numErrors + 1)>>

\* C3: numErrors-1 failures and then a success send nothing and leave the
\* host Up with the streak forgotten; every "down" notification has numErrors
\* failures in a row right before it.
C3_HealedStreakSilent ==
    \A n \in HostNames : ~overlap[n] =>
        /\ \A p \in 1..Len(fed[n]) : \A q \in p..Len(fed[n]) :
              ( /\ fed[n][p].st = "Up"
                /\ AllF(n, p, q - 1)
                /\ q - p >= 1
                /\ q - p <= numErrors - 1
                /\ fed[n][q].o = "S" ) =>
                    /\ NotesAt(n, p, q) = <<>>
                    /\ q = Len(fed[n]) => (PolicyState(n) = "Up" /\ Counter(n) = 0)
                    /\ q < Len(fed[n]) =>
                          (fed[n][q + 1].st = "Up" /\ fed[n][q + 1].cnt = 0)
        /\ \A j \in 1..Len(notes[n]) :
              notes[n][j].kind = "down" =>
                  /\ notes[n][j].at >= numErrors
                  /\ AllF(n, notes[n][j].at - numErrors + 1, notes[n][j].at)

C3_Witness ==
    \E n \in HostNames :
        /\ ~overlap[n]
        /\ Settled(n)
        /\ Len(fed[n]) = 2 * numErrors
        /\ AllF(n, 1, numErrors - 1)
        /\ fed[n][numErrors].o = "S"
        /\ AllF(n, numErrors + 1, 2 * numErrors)
        /\ notes[n] = <<Down(2 * numErrors)>>

\* The notifications of one kind among the first j sent for n.
Kinds(n, k, j) == Len(SelectSeq(SubSeq(notes[n], 1, j), LAMBDA x : x.kind = k))

\* C4: for every interleaving of the handlers of one hostname, two "down"
\* notifications have a success between them, and every "recovered"
\* notification answers a "down" notification of its own.

C4_OncePerStreak ==
    \A n \in HostNames :
        /\ \A i \in 1..Len(notes[n]) : \A j \in (i + 1)..Len(notes[n]) :
              (notes[n][i].kind = "down" /\ notes[n][j].kind = "down") =>
                  \E k \in (notes[n][i].at + 1)..notes[n][j].at : fed[n][k].o = "S"
        /\ \A j \in 1..Len(notes[n]) : Kinds(n, "recovered", j) <= Kinds(n, "down", j)

\* The down-notified flag of a host is set only while its failure counter is
\* at least numErrors ...
Flag(n) == errors[n] # 0 /\ heap[errors[n]].sent

FlagNeedsThreshold ==
    \A n \in HostNames : Flag(n) => Counter(n) >= numErrors

\* ... and the flag is cleared only by the OK call that goes on to send the
\* "recovered" notification.
FlagClearedByRecovery ==
    \A n \in HostNames :
        (Flag(n) /\ ~Flag(n)') =>
            \E i \in 1..Len(wHosts) :
                /\ wHosts[i].Host = n
                /\ gor[i].pc = "ping"
                /\ gor'[i].pc = "ok_check"
                /\ heap[gor'[i].s].sent

\* C5: in every reachable state a set flag has a counter of at least
\* numErrors, and a step clears the flag only when it is the OK call that
\* sends "recovered".
C5_FlagInvariant == []FlagNeedsThreshold /\ [][FlagClearedByRecovery]_vars

\* C9 (part_002): NewHost with a hostname that is already in the list
\* returns an error and leaves the list as it was.
C9_DuplicateRejected ==
    (wNewHost.called /\ wNewHost.present) =>
        (wNewHost.ret # "nil" /\ wNewHost.after = wNewHost.before)

--------------------------------------------------------------------------
(***************************************************************************)
(* The ring buffer of part_001 and of main.go.                             *)
(***************************************************************************)

\* The outcome a slot holds, read the way Host.Status reads it: a failure
\* when Error is set, the latency otherwise.
Slot(h, i) ==
    IF h.Error[i] # NilError
    THEN [ok |-> FALSE, d |-> 0, e |-> h.Error[i], t |-> h.CollectionTime[i]]
    ELSE [ok |-> TRUE, d |-> h.Latency[i], e |-> NilError, t |-> h.CollectionTime[i]]

Slots(h) == {Slot(h, i) : i \in 0..(bufSize - 1)}

Recorded(n, lo, hi) == {rec[n][k] : k \in lo..hi}

Latencies(n) == [k \in 1..Len(rec[n]) |-> IF rec[n][k].ok THEN rec[n][k].d ELSE -1]

Scenario7(n) ==
    /\ bufSize = 3
    /\ Latencies(n) = <<10 * Millisecond, 20 * Millisecond, 30 * Millisecond,
                        40 * Millisecond>>

\* C7 as claimed: with bufSize 3, the latencies 10ms, 20ms, 30ms, 40ms leave
\* slots 0, 1, 2 holding 40ms, 20ms, 30ms, and the status "40ms".
C7_SlotOrder ==
    \A n \in DOMAIN Hosts : Scenario7(n) =>
        /\ <<Hosts[n].Latency[0], Hosts[n].Latency[1], Hosts[n].Latency[2]>>
              = <<40 * Millisecond, 20 * Millisecond, 30 * Millisecond>>
        /\ Status(Hosts[n]) = "40ms"

\* C7 as amended: the slots read from the cursor on, wrapping round, hold
\* 40ms, 20ms, 30ms; the cursor is at slot 1 and slots 0, 1, 2 hold 30ms,
\* 40ms, 20ms; the status is "40ms".
C7_CursorOrder ==
    \A n \in DOMAIN Hosts : Scenario7(n) =>
        /\ [k \in 1..3 |-> Hosts[n].Latency[(Hosts[n].pos + k - 1) % bufSize]]
              = <<40 * Millisecond, 20 * Millisecond, 30 * Millisecond>>
        /\ Hosts[n].pos = 1
        /\ <<Hosts[n].Latency[0], Hosts[n].Latency[1], Hosts[n].Latency[2]>>
              = <<30 * Millisecond, 40 * Millisecond, 20 * Millisecond>>
        /\ 10 * Millisecond \notin {Hosts[n].Latency[i] : i \in 0..2}
        /\ Status(Hosts[n]) = "40ms"

C7_Witness ==
    \E n \in DOMAIN Hosts : Scenario7(n) /\ Status(Hosts[n]) = "40ms"

\* C8 (main.go): the cursor is the number of records modulo the capacity,
\* stays inside the buffer, is the slot written last, and any mainBufSize
\* records in a row write every slot.
C8_CursorCoversBuffer ==
    \A n \in DOMAIN mHosts :
        /\ mHosts[n].pos \in 0..(mainBufSize - 1)
        /\ mHosts[n].pos = mCount[n] % mainBufSize
        /\ mCount[n] > 0 => mStamp[n][mHosts[n].pos] = mCount[n]
        /\ mCount[n] >= mainBufSize =>
              \A i \in 0..(mainBufSize - 1) : mStamp[n][i] > mCount[n] - mainBufSize

\* The same of part_001, where the modulus is bufSize.
CursorCoversBuffer_part001 ==
    \A n \in DOMAIN Hosts :
        /\ Hosts[n].pos \in 0..(bufSize - 1)
        /\ Hosts[n].pos = Len(rec[n]) % bufSize
        /\ Len(rec[n]) > 0 =>
              /\ Hosts[n].CollectionTime[Hosts[n].pos] = rec[n][Len(rec[n])].t
              /\ \A i \in 0..(bufSize - 1) :
                    i # Hosts[n].pos =>
                        Hosts[n].CollectionTime[i] < rec[n][Len(rec[n])].t
        /\ Len(rec[n]) >= bufSize =>
              {Hosts[n].CollectionTime[i] : i \in 0..(bufSize - 1)}
                  = {rec[n][k].t : k \in (Len(rec[n]) - bufSize + 1)..Len(rec[n])}

--------------------------------------------------------------------------
(***************************************************************************)
(* The registry of part_001.                                               *)
(***************************************************************************)

Size == Cardinality(DOMAIN Hosts)

\* A NewHost call that holds the lock and is about to run its checks, for a
\* hostname that is not in the registry while the registry is full.
AtCapacity(c) ==
    call[c].pc = "check" /\ ~Present(call[c].name) /\ Size >= maxHosts

CapacityStep ==
    /\ \A c \in 1..MaxCallers : AtCapacity(c) =>
          /\ Hosts' = Hosts
          /\ call'[c] # call[c] =>
                /\ call'[c].pc = "idle"
                /\ call'[c].ret = "Maximum number of monitored hosts reached"
    /\ Cardinality(DOMAIN Hosts') > Size => Cardinality(DOMAIN Hosts') <= maxHosts

\* C10: NewHost of a new hostname into a full registry returns the
\* capacity error and leaves the registry alone, and no step of any
\* interleaving of NewHost calls grows the registry past maxHosts.
C10_CapacityExceeded == [][CapacityStep]_vars

C10_Witness ==
    \E c \in 1..MaxCallers : \E c2 \in 1..MaxCallers :
        /\ call[c].pc = "idle"
        /\ call[c].ret = "Maximum number of monitored hosts reached"
        /\ ~call[c].present
        /\ call[c].size = maxHosts
        /\ call[c2].pc \in {"save", "save_lock", "save_encode"}
        /\ Size = maxHosts

\* The same for a hostname that is in the registry (C9, part_001).
DuplicateStep ==
    \A c \in 1..MaxCallers :
        (call[c].pc = "check" /\ Present(call[c].name)) =>
            /\ Hosts' = Hosts
            /\ call'[c] # call[c] =>
                  /\ call'[c].pc = "idle"
                  /\ call'[c].ret = "Host already being monitored"

DuplicateRejected_part001 == [][DuplicateStep]_vars

\* C11 as claimed: the registry never holds more than maxHosts hosts, the
\* state right after the initial load included.
C11_SizeWithinMax == Size <= maxHosts

\* C11 as amended: the registry holds at most maxHosts hosts or exactly the
\* hosts StartRunner loaded from the file; a file with more than maxHosts
\* hosts is loaded whole and NewHost then adds nothing.
C11_SizeWithinMaxOrLoaded ==
    /\ Size <= maxHosts \/ DOMAIN Hosts = loaded
    /\ Size <= (IF Cardinality(loaded) > maxHosts THEN Cardinality(loaded)
                ELSE maxHosts)

C11_Witness ==
    /\ Size > maxHosts
    /\ \E c \in 1..MaxCallers :
          /\ call[c].pc = "idle"
          /\ call[c].ret = "Maximum number of monitored hosts reached"

\* A NewHost call has returned after its save failed.
SaveFailed(c) ==
    call[c].pc = "idle" /\ call[c].saved \notin {"", "nil"}

\* C12 (part_001): when the save that NewHost triggers fails, NewHost
\* returns that error to its caller and the host stays in the registry.
C12_SaveErrorReturned ==
    \A c \in 1..MaxCallers : SaveFailed(c) =>
        /\ call[c].ret = call[c].saved
        /\ call[c].name \in DOMAIN Hosts

\* C19 as claimed: NewHost holds the registry lock from its insert to the
\* end of the encoding, and the set the save writes is the registry as it
\* was right after the insert.
C19_OneHold ==
    \A c \in 1..MaxCallers :
        /\ call[c].pc \in {"save", "save_lock", "save_encode"} => rLock = c
        /\ (call[c].pc = "idle" /\ call[c].saved = "nil") =>
              call[c].wrote = call[c].inserted

\* C19 as amended: the insert and the encoding each happen under the
\* registry lock, which NewHost releases in between; the set the save writes
\* is the registry at the time of the encoding: it holds the inserted host
\* and every host that was in the registry after the insert.
C19_TwoHolds ==
    \A c \in 1..MaxCallers :
        /\ call[c].pc \in {"check", "insert", "save_encode"} => rLock = c
        /\ call[c].pc \in {"save", "save_lock"} => rLock # c
        /\ (call[c].pc = "idle" /\ call[c].saved = "nil") =>
              /\ call[c].name \in call[c].wrote
              /\ call[c].inserted \subseteq call[c].wrote
              /\ call[c].wrote \subseteq DOMAIN Hosts

\* Another caller's insert fell between this caller's insert and its encoding.
C19_Witness ==
    \E c \in 1..MaxCallers :
        /\ call[c].pc = "idle"
        /\ call[c].saved = "nil"
        /\ call[c].wrote # call[c].inserted
        /\ call[c].name \in call[c].wrote

--------------------------------------------------------------------------
(***************************************************************************)
(* The reload of part_002.                                                 *)
(***************************************************************************)

\* The host set: the hostnames and notification targets, in list order.
Names(list) == [i \in 1..Len(list) |-> <<list[i].Host, list[i].Email>>]

\* The step in which the poller's call of loadRules returns.
LoadRulesReturns == wpc = "load" /\ wpc' # "load"

UnchangedMtimeStep ==
    ( /\ LoadRulesReturns
      /\ wLast > 0
      /\ wMtime <= wLast
      /\ wLoad' # "loadRules Stat" ) =>
        Names(wHosts') = Names(wHosts)

\* C13 (part_002): a loadRules call that finds the file's modification time
\* equal to or older than the last loaded one leaves the host set in memory
\* as it was.
C13_UnchangedMtimeSkips == [][UnchangedMtimeStep]_vars

LoadFailures == {"loadRules Stat", "loadRules Open", "loadRules json Decode"}

FailedReloadStep ==
    (LoadRulesReturns /\ wLoad' \in LoadFailures) =>
        /\ wHosts' = wHosts
        /\ wLast' = wLast
        /\ wpc' = "sleep"

\* The poller is in its loop: after a failed load it sleeps and then loads again.
PollerRuns ==
    /\ wpc \in {"load", "launch", "range", "wait", "sleep"}
    /\ wpc = "sleep" => ENABLED WSleep

\* C14 (part_002): a loadRules call that fails at Stat, Open or Decode
\* leaves r.Hosts and r.last as they were, and the poller goes on to its
\* sleep and the next iteration.
C14_FailedReloadKeepsState == []PollerRuns /\ [][FailedReloadStep]_vars

\* A load failed after an earlier one succeeded, and the poller is back at
\* its next load with the hosts it had.
C14_Witness ==
    /\ wLoad \in LoadFailures
    /\ wLast > 0
    /\ Len(wHosts) > 0
    /\ wpc = "load"
    /\ TotalFed > 0

--------------------------------------------------------------------------
(***************************************************************************)
(* The poll rounds of part_001 and of main.go.                             *)
(***************************************************************************)

\* C15 (part_001): while a round runs no probe of an earlier round is
\* outstanding; ticks arrive at any moment, also in the middle of a round.
C15_RoundsSequential ==
    \A g \in 1..Len(gs) : gs[g].round < round => gs[g].pc = "done"

C15_Witness ==
    /\ round >= 2
    /\ \E g \in 1..Len(gs) : gs[g].round = round /\ gs[g].pc = "get"
    /\ \E g \in 1..Len(gs) : gs[g].round < round /\ gs[g].pc = "done"

\* The same of main.go.
RoundsSequential_main ==
    \A g \in 1..Len(mGs) : mGs[g].round < mRound => mGs[g].pc = "done"

\* The probes of round r whose result went into the history of host n.
MainProbesOf(r, n) ==
    {g \in 1..Len(mGs) : mGs[g].round = r /\ mGs[g].into = n}

MainFinished(r) == r < mRound \/ (r = mRound /\ mpc = "loop")

\* C16 (main.go): a finished round has launched one probe for every host of
\* the registry, every probe of it has delivered its result, and every host
\* has one new history entry.
C16_OneProbePerHost ==
    \A r \in 1..mRound : MainFinished(r) =>
        /\ \A g \in 1..Len(mGs) : mGs[g].round = r => mGs[g].pc = "done"
        /\ \A n \in DOMAIN mHosts : Cardinality(MainProbesOf(r, n)) = 1

ProbesOf(r, n) == {g \in 1..Len(gs) : gs[g].round = r /\ gs[g].into = n}

Finished(r) == r < round \/ (r = round /\ ppc \in {"tick", "save_lock", "save_encode"})

\* The same of part_001, for the hosts that were in the registry from the
\* start; a host that NewHost adds has at most one probe in a round.
OneProbePerHost_part001 ==
    \A r \in 1..round : Finished(r) =>
        /\ \A g \in 1..Len(gs) : gs[g].round = r => gs[g].pc = "done"
        /\ \A n \in loaded : Cardinality(ProbesOf(r, n)) = 1
        /\ \A n \in DOMAIN Hosts : Cardinality(ProbesOf(r, n)) <= 1

\* A goroutine's Ping hands its result to OK or Fail in this step.
Records(g) == g <= Len(gs) /\ gs[g].pc = "get" /\ gs'[g].pc = "send"

RecordStep ==
    \A g \in 1..MaxGs : Records(g) =>
        /\ Len(rec'[gs[g].host]) = Len(rec[gs[g].host]) + 1
        /\ Hosts'[gs[g].host].pos = Advance(Hosts[gs[g].host].pos)
        /\ \A m \in DOMAIN Hosts : m # gs[g].host =>
              Hosts'[m] = Hosts[m] /\ rec'[m] = rec[m]

RecordedWhereProbed ==
    \A g \in 1..Len(gs) : gs[g].pc \in {"send", "done"} => gs[g].into = gs[g].host

\* C17 (part_001): in whatever order the probes of a round finish, a result
\* goes into the history of the host that was probed, and the step that
\* records it leaves the cursor and the slots of every other host alone.
C17_OwnHostOnly == []RecordedWhereProbed /\ [][RecordStep]_vars

\* Two probes of one round recorded in the opposite order of their launch.
C17_Witness ==
    \E g \in 1..Len(gs) : \E k \in 1..Len(gs) :
        /\ g < k
        /\ gs[g].round = gs[k].round
        /\ gs[g].host # gs[k].host
        /\ gs[k].pc = "done"
        /\ gs[g].pc = "send"
        /\ rec[gs[k].host][Len(rec[gs[k].host])].t < rec[gs[g].host][Len(rec[gs[g].host])].t

\* The same of main.go: the goroutine records where it probed.
RecordedWhereProbed_main ==
    \A g \in 1..Len(mGs) : mGs[g].pc \in {"send", "done"} => mGs[g].into = mGs[g].host

--------------------------------------------------------------------------
(***************************************************************************)
(* The locks of part_001 and its pages.                                    *)
(***************************************************************************)

\* The pairs a reader may find in a slot: those of the moments the host's lock
\* was free, and those of a record whose Latency and CollectionTime are both
\* written.
Visible == whole \cup (IF pg.pc = "err" THEN Pairs(Hosts[pg.host]) ELSE {})

\* C18 (history.go): every row of the /history page, a Latency with the
\* CollectionTime of the same slot, is a pair of one record; the page never
\* shows a slot that OK has written in part.
C18_WholeRecordsOnly ==
    \A k \in 1..Len(hr.rows) : hr.rows[k] \in Visible

\* OK and Fail write pos and the slots, and Status reads them, while they hold
\* the lock of the host.
AccessUnderHostLock ==
    /\ pg.pc \in {"pos", "lat", "time", "err"} => hLock[pg.host] = ProberId
    /\ wl.pc = "status" => hLock[wl.host] = WelcomeId

\* The step-by-step OK and Fail leave a host as RecordOK and RecordFail do.
StepwiseStep ==
    pg.pc = "err" /\ pg'.pc = "idle" =>
        \E h \in {[Hosts[pg.host] EXCEPT
                     !.pos = (@ + bufSize - 1) % bufSize]} :
           \E lat \in Durations \cup {0}, t \in 0..now, e \in Reasons \cup {NilError} :
              LET before == [h EXCEPT !.Latency[Hosts[pg.host].pos] = lat,
                                      !.CollectionTime[Hosts[pg.host].pos] = t,
                                      !.Error[Hosts[pg.host].pos] = e]
                  at == Hosts[pg.host].CollectionTime[Hosts[pg.host].pos]
              IN Hosts'[pg.host] = IF pg.ok THEN RecordOK(before, pg.d, at)
                                            ELSE RecordFail(before, pg.e, at)

StepwiseAsRecorded == [][StepwiseStep]_vars

\* The threads with an outbound network call in flight: a /newhost handler in
\* LookupIP or in the GET of robots.txt, the Ping in its GET.
InNetwork ==
    {c \in 1..MaxCallers : hand[c].pc \in {"lookup", "robots"}}
        \cup (IF pg.pc = "get" THEN {ProberId} ELSE {})

--------------------------------------------------------------------------
(***************************************************************************)
(* part_001 and its host file.                                             *)
(***************************************************************************)

\* A round starts on a host file that was replaced after the load.
RoundOnChangedFile ==
    ppc = "tick" /\ ppc' = "launch" /\ pLast > 0 /\ pMtime > pLast

\* C21 (part_001): when a round starts and the host file is newer than the
\* last successful load, the registry the round probes holds the hosts of the
\* file.
C21_ReloadEveryRound ==
    [][RoundOnChangedFile => Encoded(Hosts') = pFile]_vars

\* C27 (part_001): whatever the load of StartRunner returned, NewHost of a
\* new hostname goes through its insert and returns; it never faults on
\* r.Hosts.
C27_NewHostNeverFaults ==
    \A c \in 1..MaxCallers : call[c].pc # "panic"

\* After a load that succeeded NewHost inserts into the decoded map.
NewHostAfterLoad ==
    \A c \in 1..MaxCallers : ~pNil => call[c].pc # "panic"

--------------------------------------------------------------------------
(***************************************************************************)
(* The slot at the cursor and Status.                                      *)
(***************************************************************************)

\* The newest record of a host.
Latest(n) == rec[n][Len(rec[n])]

\* C22 (part_001): after a record, of a success or of a failure, the slot at
\* the cursor holds the latency, the error and the time of that record and
\* nothing of the record that used the slot before; a failure has no latency.
C22_SlotFullyWritten ==
    \A n \in DOMAIN Hosts : Len(rec[n]) > 0 =>
        /\ Hosts[n].Latency[Hosts[n].pos] = Latest(n).d
        /\ Hosts[n].Error[Hosts[n].pos] = Latest(n).e
        /\ Hosts[n].CollectionTime[Hosts[n].pos] = Latest(n).t

\* OK writes the three fields; Fail writes the error and the time.
SlotWrittenBut ==
    \A n \in DOMAIN Hosts : Len(rec[n]) > 0 =>
        /\ Latest(n).ok => Hosts[n].Latency[Hosts[n].pos] = Latest(n).d
        /\ Hosts[n].Error[Hosts[n].pos] = Latest(n).e
        /\ Hosts[n].CollectionTime[Hosts[n].pos] = Latest(n).t

\* What the page shows of a record.
Shown(r) ==
    IF r.ok THEN ToString(r.d \div Millisecond) \o "ms" ELSE "Error: " \o r.e

\* Status returns in this step.
StatusReturns == wl.pc = "status" /\ wl'.pc = "range"

StatusStep ==
    StatusReturns =>
        /\ Hosts' = Hosts
        /\ Len(rec[wl.host]) > 0 => wl'.out[Len(wl'.out)] = Shown(Latest(wl.host))

\* C23 (part_001): Status returns what the newest record of the host says,
\* "Error: " and the reason when it failed and its latency otherwise, also
\* when the slot was used before and while a Ping is under way; the call
\* changes nothing of the host.
C23_StatusOfLatest == [][StatusStep]_vars

\* Status has reported the failure that followed a success.
C23_Witness ==
    /\ Len(rec["a.example"]) = 2
    /\ rec["a.example"][1].ok
    /\ ~rec["a.example"][2].ok
    /\ wl.out = <<"Error: timeout">>

\* The same between the records of part_001, for every size of the buffer.
StatusOfLatest_records ==
    \A n \in DOMAIN Hosts : Len(rec[n]) > 0 => Status(Hosts[n]) = Shown(Latest(n))

--------------------------------------------------------------------------
(***************************************************************************)
(* The poller of part_001 and the registry map.                            *)
(***************************************************************************)

\* The probes of the running round whose result the poller has not received.
Outstanding ==
    {g \in 1..Len(gs) : gs[g].round = round /\ gs[g].pc # "done"}

\* The receive loop waits for a result and no probe is left to send one.
PollerStuck == ppc = "wait" /\ waitLeft > 0 /\ Outstanding = {}

\* C24 (part_001): with NewHost calls at any moment of a round, the receive
\* loop waits for as many results as there are probes to deliver one, so the
\* poller is never left waiting for a result that no probe will send.
C24_PollerNeverStuck ==
    /\ ppc = "wait" => waitLeft = Cardinality(Outstanding)
    /\ ~PollerStuck

\* Without NewHost during the round the two loops agree.
WaitsForLaunched_quiet ==
    (calls = 0 /\ ppc = "wait") => waitLeft = Cardinality(Outstanding)

\* C25 (part_001): while NewHost is at its insert into r.Hosts the poller is
\* in neither of its loops over r.Hosts.
C25_NoRangeDuringInsert ==
    \A c \in 1..MaxCallers :
        call[c].pc = "insert" => ppc \notin {"launch", "wait"}

--------------------------------------------------------------------------
(***************************************************************************)
(* The two kinds of lock of part_001.                                      *)
(***************************************************************************)

\* A /newhost request stands at an r.Lock(): that of NewHost or that of save.
AtRegistryLock(c) ==
    \/ hand[c].pc = "newhost" /\ call[c] = NoCall
    \/ call[c].pc = "save_lock"

\* A thread that holds a host's lock and the registry lock is welcome inside
\* Status, which took the registry lock first.
BothHeldByWelcome ==
    \A n \in RegNames :
        (hLock[n] # 0 /\ hLock[n] = rLock) => (rLock = WelcomeId /\ wl.pc = "status")

\* A thread that stands at a Lock() does not hold that lock, and one that
\* stands at r.Lock() holds no host's lock.
NoReacquire ==
    /\ \A c \in 1..MaxCallers : AtRegistryLock(c) =>
          rLock # c /\ \A n \in RegNames : hLock[n] # c
    /\ wl.pc = "idle" => rLock # WelcomeId /\ \A n \in RegNames : hLock[n] # WelcomeId
    /\ pg.pc = "lock" => hLock[pg.host] # ProberId /\ rLock # ProberId
    /\ wl.pc = "range" => \A n \in wl.todo : hLock[n] # WelcomeId

\* The holder of a lock can take its next step, or waits for a lock whose
\* holder can.
HoldersRun ==
    /\ \A c \in 1..MaxCallers :
          rLock = c => ENABLED (NHCheck(c) \/ NHInsert(c) \/ SaveEncode(c))
    /\ \A n \in RegNames :
          /\ hLock[n] = ProberId =>
                ENABLED (PingPos \/ PingLatency \/ PingTime \/ PingError)
          /\ hLock[n] = WelcomeId => ENABLED WelcomeStatus
    /\ rLock = WelcomeId =>
          \/ ENABLED WelcomeNext
          \/ \E n \in wl.todo : hLock[n] = ProberId

\* A thread that takes the registry lock holds no host's lock.
RegistryLockFirst ==
    (rLock' # rLock /\ rLock' # 0) => \A n \in RegNames : hLock[n] # rLock'

\* C26 (part_001, server.go): the locks of the registry and of the hosts
\* never bring the threads to a standstill: both are held only by welcome,
\* registry lock first; the registry lock is never taken under a host's
\* lock; no thread takes a lock it holds; every holder can go on.
C26_LockOrder ==
    [](BothHeldByWelcome /\ NoReacquire /\ HoldersRun) /\ [][RegistryLockFirst]_vars

\* welcome holds both locks while a Ping waits for the host's lock and a
\* /newhost request for the registry lock.
C26_Witness ==
    /\ rLock = WelcomeId
    /\ hLock["a.example"] = WelcomeId
    /\ pg.pc = "lock"
    /\ AtRegistryLock(1)

==========================================================================
